---- MODULE Spec2Model ----
(***************************************************************************)
(* Placement tracker (src/app.py): the session's list of application       *)
(* records, the callbacks that mutate it (new_app_form, move_app,          *)
(* delete_app, update_app_field), the role filter of the sidebar, and the  *)
(* persistence of the list in the "Applications" worksheet (save_data,     *)
(* load_data, "Reload from Cloud").                                        *)
(*                                                                         *)
(* Texts that the code inspects character by character (notes, and the     *)
(* cells of the date and time columns) are sequences of one-character      *)
(* strings.  A Python value is a record [k, s, n]: k is its type ("none",  *)
(* "str", "date", "time"), s the characters of a str, n the numbers of a   *)
(* date <<y, m, d>> or of a time <<h, m, s>>.  Ids stand for the strings   *)
(* uuid.uuid4() returns, numbered in the order they are generated.         *)
(***************************************************************************)
EXTENDS Integers, Sequences, FiniteSets

\* ---------------------------------------------------------------- bounds

\* Operations performed in one session.
MaxSteps == 3
\* Records the store may hold when "Add Application" is submitted.
MaxApps == 2
\* Field edits (on_change callbacks) in one session.
MaxEdits == 2

\* ---------------------------------------------------------------- values

NoneV == [k |-> "none", s |-> <<>>, n |-> <<>>]
Str(chars) == [k |-> "str", s |-> chars, n |-> <<>>]
Date(y, m, d) == [k |-> "date", s |-> <<>>, n |-> <<y, m, d>>]
Time(h, m, sec) == [k |-> "time", s |-> <<>>, n |-> <<h, m, sec>>]

Digits == <<"0", "1", "2", "3", "4", "5", "6", "7", "8", "9">>

IsDigit(c) == \E i \in 1..Len(Digits) : Digits[i] = c

DigitVal(c) == (CHOOSE i \in 1..Len(Digits) : Digits[i] = c) - 1

\* int(s[i..j]) for a run of digits
RECURSIVE Num(_, _, _)
Num(s, i, j) == IF j < i THEN 0 ELSE Num(s, i, j - 1) * 10 + DigitVal(s[j])

AllDigits(s, idx) == \A i \in idx : IsDigit(s[i])

\* "%02d" % n and "%04d" % n
Pad2(n) == <<Digits[((n \div 10) % 10) + 1], Digits[(n % 10) + 1]>>
Pad4(n) == Pad2(n \div 100) \o Pad2(n % 100)

\* c in s
HasChar(s, c) == \E i \in 1..Len(s) : s[i] = c

IsLeap(y) == ((y % 4) = 0 /\ (y % 100) # 0) \/ (y % 400) = 0

DaysInMonth(y, m) ==
    IF m = 2 THEN (IF IsLeap(y) THEN 29 ELSE 28)
    ELSE IF m \in {4, 6, 9, 11} THEN 30 ELSE 31

\* datetime.time.fromisoformat on a text of at most 8 characters holding ':':
\* "HH:MM" or "HH:MM:SS"; NoneV stands for ValueError.
time_fromisoformat(s) ==
    IF Len(s) = 5 /\ AllDigits(s, {1, 2, 4, 5}) /\ s[3] = ":"
         /\ Num(s, 1, 2) <= 23 /\ Num(s, 4, 5) <= 59
    THEN Time(Num(s, 1, 2), Num(s, 4, 5), 0)
    ELSE IF Len(s) = 8 /\ AllDigits(s, {1, 2, 4, 5, 7, 8}) /\ s[3] = ":" /\ s[6] = ":"
         /\ Num(s, 1, 2) <= 23 /\ Num(s, 4, 5) <= 59 /\ Num(s, 7, 8) <= 59
    THEN Time(Num(s, 1, 2), Num(s, 4, 5), Num(s, 7, 8))
    ELSE NoneV

\* datetime.date.fromisoformat: "YYYY-MM-DD"; NoneV stands for ValueError.
date_fromisoformat(s) ==
    IF Len(s) = 10 /\ AllDigits(s, {1, 2, 3, 4, 6, 7, 9, 10}) /\ s[5] = "-" /\ s[8] = "-"
         /\ Num(s, 1, 4) >= 1 /\ Num(s, 6, 7) \in 1..12
         /\ Num(s, 9, 10) \in 1..DaysInMonth(Num(s, 1, 4), Num(s, 6, 7))
    THEN Date(Num(s, 1, 4), Num(s, 6, 7), Num(s, 9, 10))
    ELSE NoneV

\* x.isoformat() of a date or of a time (no microseconds)
isoformat(v) ==
    IF v.k = "date" THEN Pad4(v.n[1]) \o <<"-">> \o Pad2(v.n[2]) \o <<"-">> \o Pad2(v.n[3])
    ELSE Pad2(v.n[1]) \o <<":">> \o Pad2(v.n[2]) \o <<":">> \o Pad2(v.n[3])

\* ----------------------------------------------------------------- state

VARIABLES
    applications,    \* st.session_state.applications: the list of records
    sheet,           \* rows of the "Applications" worksheet (no rows: a blank sheet)
    nextId,          \* number of the next uuid4
    selected_roles,  \* value of the "Filter by Role" multiselect
    filtered_apps,   \* the records the board shows
    notice,          \* the banner the last run showed ("" when none)
    lastOp,          \* the last callback: its name, arguments and what it found
    deleted,         \* ids delete_app has removed
    edits,           \* field edits performed
    steps            \* operations performed

vars == <<applications, sheet, nextId, selected_roles, filtered_apps, notice,
          lastOp, deleted, edits, steps>>

Statuses == {"Applied", "PPT", "Test"}

\* The fields the board binds to update_app_field (lines 230, 255, 261, 265, 289, 295, 300)
TextFields == {"applied_note", "ppt_note", "test_note"}
DateFields == {"ppt_date", "test_date"}
TimeFields == {"ppt_time", "test_time"}
MutableFields == TextFields \cup DateFields \cup TimeFields

\* Inputs of the forms and widgets
Companies == {"", "Acme"}
RoleOrder == <<"DA", "SWE">>
Roles == {""} \cup {RoleOrder[i] : i \in 1..Len(RoleOrder)}
InitialNotes == {<<>>, <<"h", "i">>}
NoteInputs ==
    { <<"h", "i">>,
      <<"0", "9", ":", "3", "0">>,
      <<"2", "0", "2", "4", "-", "0", "6", "-", "0", "1">>,
      <<"2", "5", ":", "9", "9">> }
DateInputs == {Date(2024, 6, 1)}
TimeInputs == {Time(9, 30, 0), Str(<<"1", "4", ":", "0", "5">>)}

WidgetValues(field_name) ==
    IF field_name \in TextFields THEN {Str(s) : s \in NoteInputs}
    ELSE IF field_name \in DateFields THEN DateInputs
    ELSE TimeInputs

\* The record kept of a callback.  id: the id it was given (the new id of a
\* create); arg: the new status of a move, the field of an update, the role of
\* a create, the remote outcome of a save; val: the widget's value of an update,
\* the note of a create; found: whether the id was in the store (create, save,
\* reload: whether it went through); was: the status before a move, the company
\* of a create.
Op(name, id, arg, val, found, was) ==
    [op |-> name, id |-> id, arg |-> arg, val |-> val, found |-> found, was |-> was]

\* ------------------------------------------------------------ role filter

\* sorted(list(set(app['role'] for app in applications)))
all_roles(apps) ==
    SelectSeq(RoleOrder, LAMBDA r : \E i \in 1..Len(apps) : apps[i].role = r)

RoleSet(apps) == {all_roles(apps)[i] : i \in 1..Len(all_roles(apps))}

\* An empty selection that shows every record
filter_by_roles_all_on_empty(apps, selected) ==
    IF selected = {} THEN apps ELSE SelectSeq(apps, LAMBDA a : a.role \in selected)

\* [app for app in applications if app['role'] in selected_roles], [] when
\* nothing is selected
RECURSIVE filter_by_roles(_, _)
filter_by_roles(apps, selected) ==
    IF selected = {} \/ apps = <<>> THEN <<>>
    ELSE (IF Head(apps).role \in selected THEN <<Head(apps)>> ELSE <<>>)
         \o filter_by_roles(Tail(apps), selected)

\* The multiselect keeps its value while its options are the same and falls
\* back to default=all_roles when they change.
multiselect(apps, old_apps, old_selected) ==
    IF all_roles(apps) = all_roles(old_apps) THEN old_selected ELSE RoleSet(apps)

\* The script run that follows a callback: the sidebar filter and the board.
Rerun(apps) ==
    /\ selected_roles' = multiselect(apps, applications, selected_roles)
    /\ filtered_apps' = filter_by_roles(apps, multiselect(apps, applications, selected_roles))

\* ------------------------------------------------------- store callbacks

\* Index (from 1) of the first record with this id; NotFound for Python's None.
NotFound == 0

\* A miss answered with the first index instead of None
get_app_index_first_on_miss(apps, app_id) ==
    IF \E i \in 1..Len(apps) : apps[i].id = app_id
    THEN CHOOSE i \in 1..Len(apps) :
            /\ apps[i].id = app_id
            /\ \A j \in 1..(i - 1) : apps[j].id # app_id
    ELSE IF apps # <<>> THEN 1 ELSE NotFound

get_app_index(apps, app_id) ==
    IF \E i \in 1..Len(apps) : apps[i].id = app_id
    THEN CHOOSE i \in 1..Len(apps) :
            /\ apps[i].id = app_id
            /\ \A j \in 1..(i - 1) : apps[j].id # app_id
    ELSE NotFound

Present(apps, app_id) == \E i \in 1..Len(apps) : apps[i].id = app_id

\* pop() with no index removes the last record
RemoveAt_last(apps, index) == SubSeq(apps, 1, Len(apps) - 1)

\* applications.pop(index)
RemoveAt(apps, index) ==
    [i \in 1..(Len(apps) - 1) |-> IF i < index THEN apps[i] ELSE apps[i + 1]]

\* An id generator that repeats itself
uuid4_repeating ==
    IF applications # <<>> THEN applications[Len(applications)].id ELSE nextId

\* str(uuid.uuid4())
uuid4 == nextId

new_app(company, role, applied_note) ==
    [id |-> uuid4, company |-> company, role |-> role, status |-> "Applied",
     applied_note |-> Str(applied_note),
     ppt_note |-> Str(<<>>), ppt_date |-> NoneV, ppt_time |-> NoneV,
     test_note |-> Str(<<>>), test_date |-> NoneV, test_time |-> NoneV]

\* A form that asks for the company only
required_filled_company_only(company, role) == company # ""

\* if company and role
required_filled(company, role) == company # "" /\ role # ""

\* "Add Application" submitted
new_app_form(company, role, applied_note) ==
    /\ steps < MaxSteps
    /\ Len(applications) < MaxApps
    /\ IF required_filled(company, role)
       THEN /\ applications' = Append(applications, new_app(company, role, applied_note))
            /\ nextId' = nextId + 1
            /\ notice' = "added"
       ELSE /\ applications' = applications
            /\ nextId' = nextId
            /\ notice' = "fill_both"
    /\ lastOp' = Op("create", uuid4, role, Str(applied_note),
                    Len(applications') > Len(applications), company)
    /\ Rerun(applications')
    /\ steps' = steps + 1
    /\ UNCHANGED <<sheet, deleted, edits>>

StatusOrder == <<"Applied", "PPT", "Test">>

StatusRank(s) == CHOOSE i \in 1..Len(StatusOrder) : StatusOrder[i] = s

\* A move that only advances
with_status_forward(app, new_status) ==
    IF StatusRank(new_status) > StatusRank(app.status)
    THEN [app EXCEPT !.status = new_status] ELSE app

\* applications[index]['status'] = new_status
with_status(app, new_status) == [app EXCEPT !.status = new_status]

move_app(app_id, new_status) ==
    LET index == get_app_index(applications, app_id) IN
    /\ steps < MaxSteps
    /\ IF index # NotFound
       THEN /\ applications' =
                   [applications EXCEPT ![index] = with_status(applications[index], new_status)]
            /\ notice' = "moved"
       ELSE /\ applications' = applications
            /\ notice' = ""
    /\ lastOp' = Op("move", app_id, new_status, NoneV, Present(applications, app_id),
                    IF index # NotFound THEN applications[index].status ELSE "")
    /\ Rerun(applications')
    /\ steps' = steps + 1
    /\ UNCHANGED <<sheet, nextId, deleted, edits>>

delete_app(app_id) ==
    LET index == get_app_index(applications, app_id) IN
    /\ steps < MaxSteps
    /\ IF index # NotFound
       THEN /\ applications' = RemoveAt(applications, index)
            /\ notice' = "deleted"
            /\ deleted' = deleted \cup {app_id}
       ELSE /\ applications' = applications
            /\ notice' = ""
            /\ deleted' = deleted
    /\ lastOp' = Op("delete", app_id, "", NoneV, Present(applications, app_id), "")
    /\ Rerun(applications')
    /\ steps' = steps + 1
    /\ UNCHANGED <<sheet, nextId, edits>>

\* Lines 47-54: a str is parsed as a time when it holds ':' and has at most 8
\* characters, else as a date when it holds '-'; it is kept when parsing fails.
coerce(new_value) ==
    IF new_value.k # "str" THEN new_value
    ELSE IF HasChar(new_value.s, ":") /\ Len(new_value.s) <= 8
    THEN (IF time_fromisoformat(new_value.s) # NoneV
          THEN time_fromisoformat(new_value.s) ELSE new_value)
    ELSE IF HasChar(new_value.s, "-")
    THEN (IF date_fromisoformat(new_value.s) # NoneV
          THEN date_fromisoformat(new_value.s) ELSE new_value)
    ELSE new_value

\* new_value is st.session_state[f"{field_name}_{app_id}"], the widget's value
update_app_field(app_id, field_name, new_value) ==
    LET index == get_app_index(applications, app_id) IN
    /\ steps < MaxSteps
    /\ edits < MaxEdits
    /\ IF index # NotFound
       THEN applications' = [applications EXCEPT ![index][field_name] = coerce(new_value)]
       ELSE applications' = applications
    /\ notice' = ""
    /\ lastOp' = Op("update", app_id, field_name,
                    IF index # NotFound THEN new_value ELSE NoneV,
                    Present(applications, app_id), "")
    /\ Rerun(applications')
    /\ edits' = edits + 1
    /\ steps' = steps + 1
    /\ UNCHANGED <<sheet, nextId, deleted>>

\* The multiselect changed: the script runs again with the new selection.
Filter(selected) ==
    /\ steps < MaxSteps
    /\ selected # selected_roles
    /\ selected_roles' = selected
    /\ filtered_apps' = filter_by_roles(applications, selected)
    /\ notice' = ""
    /\ lastOp' = Op("filter", NotFound, "", NoneV, TRUE, "")
    /\ steps' = steps + 1
    /\ UNCHANGED <<applications, sheet, nextId, deleted, edits>>

\* ----------------------------------------------------------- persistence

\* What a worksheet cell shows for a value of the dataframe: nothing for
\* None, the text of a str, str(x) for any other object.
cell(v) ==
    IF v.k = "none" THEN <<>>
    ELSE IF v.k = "str" THEN v.s
    ELSE isoformat(v)

\* Lines 93-109: the row of one record, in the sheet's 11 columns.
to_row(app) ==
    [id |-> app.id, company |-> app.company, role |-> app.role, status |-> app.status,
     applied_note |-> cell(app.applied_note),
     ppt_note |-> cell(app.ppt_note),
     ppt_date |-> IF app.ppt_date.k = "date" THEN isoformat(app.ppt_date) ELSE <<>>,
     ppt_time |-> IF app.ppt_time.k = "time" THEN isoformat(app.ppt_time) ELSE <<>>,
     test_note |-> cell(app.test_note),
     test_date |-> IF app.test_date.k = "date" THEN isoformat(app.test_date) ELSE <<>>,
     test_time |-> IF app.test_time.k = "time" THEN isoformat(app.test_time) ELSE <<>>]

to_rows(apps) == [i \in 1..Len(apps) |-> to_row(apps[i])]

\* What the remote calls of one save do
SaveOutcomes == {"ok", "clear_fails", "update_fails"}

\* pd.DataFrame([]) has no columns: df['ppt_date'] raises KeyError (line 94)
\* before the sheet is touched.
save_raises_early(apps) == apps = <<>>

\* "Save Changes to Cloud"
save_data(outcome) ==
    /\ steps < MaxSteps
    /\ IF save_raises_early(applications) \/ outcome = "clear_fails"
       THEN /\ sheet' = sheet
            /\ notice' = "save_failed"
       ELSE IF outcome = "update_fails"
       THEN /\ sheet' = <<>>
            /\ notice' = "save_failed"
       ELSE /\ sheet' = to_rows(applications)
            /\ notice' = "saved"
    /\ lastOp' = Op("save", NotFound, outcome, NoneV, ~save_raises_early(applications), "")
    /\ Rerun(applications)
    /\ steps' = steps + 1
    /\ UNCHANGED <<applications, nextId, deleted, edits>>

\* A text cell read back: an empty cell is NaN, which line 76 turns into None.
read_text(c) == IF c = <<>> THEN NoneV ELSE Str(c)

\* pd.to_datetime(c, errors='coerce').dt.date, None for NaT
read_date(c) == date_fromisoformat(c)

\* pd.to_datetime(c, format='%H:%M:%S', errors='coerce').dt.time, None for NaT
read_time(c) == IF Len(c) = 8 THEN time_fromisoformat(c) ELSE NoneV

\* The status read from the neighbouring column
from_row_shifted(row) ==
    [id |-> row.id, company |-> row.company, role |-> row.role, status |-> row.role,
     applied_note |-> read_text(row.applied_note),
     ppt_note |-> read_text(row.ppt_note),
     ppt_date |-> read_date(row.ppt_date),
     ppt_time |-> read_time(row.ppt_time),
     test_note |-> read_text(row.test_note),
     test_date |-> read_date(row.test_date),
     test_time |-> read_time(row.test_time)]

from_row(row) ==
    [id |-> row.id, company |-> row.company, role |-> row.role, status |-> row.status,
     applied_note |-> read_text(row.applied_note),
     ppt_note |-> read_text(row.ppt_note),
     ppt_date |-> read_date(row.ppt_date),
     ppt_time |-> read_time(row.ppt_time),
     test_note |-> read_text(row.test_note),
     test_date |-> read_date(row.test_date),
     test_time |-> read_time(row.test_time)]

\* conn.read raises (read_ok false), or the sheet is blank and has none of
\* the 11 columns: the except branch returns [].
load_fails(rows, read_ok) == ~read_ok \/ rows = <<>>

load_data(rows, read_ok) ==
    IF load_fails(rows, read_ok) THEN <<>>
    ELSE [i \in 1..Len(rows) |-> from_row(rows[i])]

\* "Reload from Cloud": st.session_state.clear(), and the next run loads again.
Reload(read_ok) ==
    /\ steps < MaxSteps
    /\ applications' = load_data(sheet, read_ok)
    /\ notice' = IF load_fails(sheet, read_ok) THEN "load_failed" ELSE ""
    /\ selected_roles' = RoleSet(applications')
    /\ filtered_apps' = filter_by_roles(applications', RoleSet(applications'))
    /\ lastOp' = Op("reload", NotFound, "", NoneV, ~load_fails(sheet, read_ok), "")
    /\ steps' = steps + 1
    /\ UNCHANGED <<sheet, nextId, deleted, edits>>

\* ------------------------------------------------------------ the session

\* The sheet at the start: blank, or one row an earlier session saved.
SavedRow ==
    [id |-> 1, company |-> "Acme", role |-> "SWE", status |-> "Applied",
     applied_note |-> <<"h", "i">>, ppt_note |-> <<>>, ppt_date |-> <<>>,
     ppt_time |-> <<>>, test_note |-> <<>>, test_date |-> <<>>, test_time |-> <<>>]

InitSheets == {<<>>, <<SavedRow>>}

\* Lines 133-134: the first run loads the sheet.
Init ==
    /\ sheet \in InitSheets
    /\ applications = load_data(sheet, TRUE)
    /\ nextId = Len(sheet) + 1
    /\ selected_roles = RoleSet(applications)
    /\ filtered_apps = filter_by_roles(applications, selected_roles)
    /\ notice = IF load_fails(sheet, TRUE) THEN "load_failed" ELSE ""
    /\ lastOp = Op("start", NotFound, "", NoneV, ~load_fails(sheet, TRUE), "")
    /\ deleted = {}
    /\ edits = 0
    /\ steps = 0

\* Ids a callback may be given: those generated so far and one more.
IdInputs == 1..nextId

Next ==
    \/ \E company \in Companies, role \in Roles, applied_note \in InitialNotes :
          new_app_form(company, role, applied_note)
    \/ \E app_id \in IdInputs, new_status \in Statuses : move_app(app_id, new_status)
    \/ \E app_id \in IdInputs : delete_app(app_id)
    \/ \E app_id \in IdInputs, field_name \in MutableFields :
          \E new_value \in WidgetValues(field_name) :
             update_app_field(app_id, field_name, new_value)
    \/ \E selected \in SUBSET RoleSet(applications) : Filter(selected)
    \/ \E outcome \in SaveOutcomes : save_data(outcome)
    \/ \E read_ok \in BOOLEAN : Reload(read_ok)

Spec == Init /\ [][Next]_vars

\* ----------------------------------------------------------------- claims

IdsOf(apps) == {apps[i].id : i \in 1..Len(apps)}

\* C1: a create with non-empty company and role appends exactly one record,
\* after the records already there and leaving them as they were; the new
\* record has status Applied, the note given, empty ppt_note and test_note,
\* no ppt/test date or time, and an id no other record of the store has.
C1_CreateAppends ==
    [][(lastOp'.op = "create" /\ lastOp'.was # "" /\ lastOp'.arg # "") =>
        /\ Len(applications') = Len(applications) + 1
        /\ SubSeq(applications', 1, Len(applications)) = applications
        /\ LET r == applications'[Len(applications')] IN
              /\ r.company = lastOp'.was
              /\ r.role = lastOp'.arg
              /\ r.status = "Applied"
              /\ r.applied_note = lastOp'.val
              /\ r.ppt_note = Str(<<>>) /\ r.test_note = Str(<<>>)
              /\ r.ppt_date = NoneV /\ r.ppt_time = NoneV
              /\ r.test_date = NoneV /\ r.test_time = NoneV
              /\ r.id \notin IdsOf(applications)
              /\ r.id = lastOp'.id
        /\ notice' = "added"]_vars

\* Two creates in a row on a store that started empty and was never reloaded
\* from a saved sheet: both records come from the calls.
C1_Witness ==
    /\ lastOp.op = "create" /\ lastOp.found
    /\ sheet = <<>>
    /\ Len(applications) = 2
    /\ applications[1].id # applications[2].id
    /\ applications[2].id = lastOp.id

\* C2: a create whose company or role is empty shows the validation error and
\* leaves the store (and the sheet) exactly as it was.
C2_InvalidCreateRejected ==
    [][(lastOp'.op = "create" /\ (lastOp'.was = "" \/ lastOp'.arg = "")) =>
        /\ applications' = applications
        /\ notice' = "fill_both"
        /\ sheet' = sheet]_vars

C2_Witness ==
    /\ lastOp.op = "create"
    /\ lastOp.was # "" /\ lastOp.arg = ""
    /\ notice = "fill_both"
    /\ applications # <<>>

\* C3: a save followed by a load gives back the records the store had; a
\* save of the empty store followed by a load gives the empty store.
C3_RoundTrip ==
    [][(lastOp.op = "save" /\ lastOp'.op = "reload" /\ lastOp'.found) =>
        /\ notice = "saved" => applications' = applications
        /\ applications = <<>> => applications' = <<>>]_vars

\* C4: a save that fails leaves the store and the sheet as they were.
C4_SaveAllOrNothing ==
    [][(lastOp'.op = "save" /\ notice' = "save_failed") =>
        /\ applications' = applications
        /\ sheet' = sheet]_vars

C7_MoveSetsStatus ==
    [][(lastOp'.op = "move" /\ lastOp'.found) =>
        /\ Len(applications') = Len(applications)
        /\ \A i \in 1..Len(applications) :
              applications'[i] =
                 IF applications[i].id = lastOp'.id
                 THEN [applications[i] EXCEPT !.status = lastOp'.arg]
                 ELSE applications[i]]_vars

\* A record that a move had taken to Test is moved back to Applied, another
\* record being in the store.
C7_Witness ==
    /\ lastOp.op = "move" /\ lastOp.found
    /\ lastOp.was = "Test" /\ lastOp.arg = "Applied"
    /\ Len(applications) = 2
    /\ \E i \in 1..Len(applications) :
          applications[i].id = lastOp.id /\ applications[i].status = "Applied"

\* C8: the ids of the store are pairwise distinct and every status is one of
\* Applied, PPT, Test.
C8_UniqueIdsValidStatus ==
    /\ \A i, j \in 1..Len(applications) :
          applications[i].id = applications[j].id => i = j
    /\ \A i \in 1..Len(applications) : applications[i].status \in Statuses

\* Two records read back from the sheet after a save.
C8_Witness ==
    /\ lastOp.op = "reload" /\ lastOp.found
    /\ Len(applications) = 2
    /\ sheet # <<>>

\* Place of a role in the alphabet
RoleRank(r) == CHOOSE i \in 1..Len(RoleOrder) : RoleOrder[i] = r

\* C9: the board shows nothing when no role is selected, exactly the records
\* whose role is selected otherwise, in the store's order; with every role of
\* all_roles (the distinct roles of the store, sorted) selected it shows the
\* whole store.
C9_FilterByRoles ==
    /\ selected_roles = {} => filtered_apps = <<>>
    /\ filtered_apps = SelectSeq(applications, LAMBDA a : a.role \in selected_roles)
    /\ selected_roles = RoleSet(applications) => filtered_apps = applications
    /\ \A i \in 1..Len(all_roles(applications)) :
          /\ \E j \in 1..Len(applications) : applications[j].role = all_roles(applications)[i]
          /\ \A j \in 1..Len(all_roles(applications)) :
                all_roles(applications)[i] = all_roles(applications)[j] => i = j
          /\ \A j \in 1..(i - 1) :
                RoleRank(all_roles(applications)[j]) < RoleRank(all_roles(applications)[i])
    /\ \A j \in 1..Len(applications) : applications[j].role \in RoleSet(applications)

\* The selection was emptied while the store holds records of two roles.
C9_Witness ==
    /\ lastOp.op = "filter"
    /\ selected_roles = {}
    /\ Len(all_roles(applications)) = 2
    /\ filtered_apps = <<>>

\* C10: an update of a note of a record in the store with a text stores that
\* very text.
C10_NoteStoredAsGiven ==
    (lastOp.op = "update" /\ lastOp.found /\ lastOp.arg \in TextFields) =>
        \A i \in 1..Len(applications) :
            applications[i].id = lastOp.id => applications[i][lastOp.arg] = lastOp.val

====
